---- MODULE Spec2Model ----
(***************************************************************************)
(* Model of the two notebooks of using-hyperdrive:                         *)
(*                                                                         *)
(*   Fictitious_Model_for_Hyperparameter_Tuning.ipynb                      *)
(*     the closed-form metric formulas (numpy cells and the markdown       *)
(*     definitions of the multivariate functions and of F_1);              *)
(*   HyperDrive_MultiStep_Training_Pipeline.ipynb                          *)
(*     the three-step pipeline (train / eval / register).                  *)
(*                                                                         *)
(* numpy computes in IEEE-754 binary64.  The model keeps the structure of  *)
(* that arithmetic (binary mantissa, round to nearest even, overflow to    *)
(* infinity, underflow to zero, NaN and infinities propagating without an  *)
(* exception) with a 15-bit mantissa instead of a 53-bit one, so that all  *)
(* intermediate integers stay below 2^31.                                  *)
(***************************************************************************)
EXTENDS Integers, Sequences, FiniteSets, TLC

(***************************************************************************)
(* Floating-point numbers.                                                 *)
(*   [k |-> "fin", m, e]  the number m * 2^e, with m = 0 (and e = 0) or    *)
(*                        2^14 <= |m| < 2^15                               *)
(*   [k |-> "inf", m, e]  +infinity (m = 1) or -infinity (m = -1)          *)
(*   [k |-> "nan", m, e]  not a number                                     *)
(***************************************************************************)
MantBits == 15

ExpMax == 1024

ExpMin == -1074

Pow2(n) == IF n <= 0 THEN 1 ELSE 2^n

\* the number of binary digits of a (0 <= a < 2^31)
BitLen(a) ==
  IF a <= 0 THEN 0
  ELSE CHOOSE n \in 1..31 : Pow2(n - 1) <= a /\ (n = 31 \/ a < Pow2(n))

Abs(i) == IF i < 0 THEN -i ELSE i

Sgn(i) == IF i < 0 THEN -1 ELSE 1

NaN == [k |-> "nan", m |-> 0, e |-> 0]

Inf(sgn) == [k |-> "inf", m |-> sgn, e |-> 0]

Zero == [k |-> "fin", m |-> 0, e |-> 0]

\* the quotient q0 of a division by 2 * half with remainder rem, rounded to
\* nearest, ties to even
RoundUp(q0, rem, half) ==
  IF rem > half \/ (rem = half /\ q0 % 2 = 1) THEN q0 + 1 ELSE q0

\* a mantissa that rounding carried up to 2^MantBits is renormalised
Carry(q, e) ==
  IF q = Pow2(MantBits)
  THEN [m |-> Pow2(MantBits - 1), e |-> e + 1]
  ELSE [m |-> q, e |-> e]

\* a * 2^e, where a > 0 has n binary digits, rounded to MantBits bits
RoundTo(a, e, n) ==
  IF n <= MantBits
  THEN [m |-> a * Pow2(MantBits - n), e |-> e - (MantBits - n)]
  ELSE Carry(RoundUp(a \div Pow2(n - MantBits), a % Pow2(n - MantBits),
                     Pow2(n - MantBits - 1)),
             e + (n - MantBits))

Round(a, e) == RoundTo(a, e, BitLen(a))

\* the rounded r with the sign sgn: overflow gives an infinity, underflow zero
Pack(sgn, r) ==
  IF r.e + MantBits > ExpMax THEN Inf(sgn)
  ELSE IF r.e + MantBits <= ExpMin THEN Zero
  ELSE [k |-> "fin", m |-> sgn * r.m, e |-> r.e]

\* the float nearest to sgn * a * 2^e (a >= 0)
Mk(sgn, a, e) == IF a = 0 THEN Zero ELSE Pack(sgn, Round(a, e))

\* the float nearest to s * 2^e
FromSigned(s, e) == Mk(Sgn(s), Abs(s), e)

FromInt(i) == FromSigned(i, 0)

IsFinite(x) == x.k = "fin"

IsZero(x) == x.k = "fin" /\ x.m = 0

FNeg(x) == IF x.k = "nan" THEN NaN ELSE [x EXCEPT !.m = -x.m]

FMul(x, y) ==
  IF x.k = "nan" \/ y.k = "nan" THEN NaN
  ELSE IF x.k = "inf" \/ y.k = "inf"
       THEN IF x.m = 0 \/ y.m = 0 THEN NaN
            ELSE Inf(Sgn(x.m) * Sgn(y.m))
  ELSE Mk(Sgn(x.m) * Sgn(y.m), Abs(x.m) * Abs(y.m), x.e + y.e)

\* the bit that records a non-zero remainder below the quotient's last digit
Sticky(rem) == IF rem = 0 THEN 0 ELSE 1

\* numpy division: x/0 is nan (x = 0) or an infinity, never an exception
FDiv(x, y) ==
  IF x.k = "nan" \/ y.k = "nan" THEN NaN
  ELSE IF x.k = "inf"
       THEN IF y.k = "inf" THEN NaN ELSE Inf(Sgn(x.m) * Sgn(y.m))
  ELSE IF y.k = "inf" THEN Zero
  ELSE IF y.m = 0
       THEN IF x.m = 0 THEN NaN ELSE Inf(Sgn(x.m))
  ELSE Mk(Sgn(x.m) * Sgn(y.m),
          2 * ((Abs(x.m) * Pow2(MantBits + 1)) \div Abs(y.m))
            + Sticky((Abs(x.m) * Pow2(MantBits + 1)) % Abs(y.m)),
          x.e - y.e - MantBits - 2)

\* the sum of two finite non-zero floats, hi with the larger exponent
AddAligned(hi, lo) ==
  IF hi.e - lo.e > MantBits + 1 THEN hi
  ELSE FromSigned(hi.m * Pow2(hi.e - lo.e) + lo.m, lo.e)

FAdd(x, y) ==
  IF x.k = "nan" \/ y.k = "nan" THEN NaN
  ELSE IF x.k = "inf"
       THEN IF y.k = "inf" /\ y.m # x.m THEN NaN ELSE x
  ELSE IF y.k = "inf" THEN y
  ELSE IF x.m = 0 THEN y
  ELSE IF y.m = 0 THEN x
  ELSE IF x.e >= y.e THEN AddAligned(x, y) ELSE AddAligned(y, x)

FSub(x, y) == FAdd(x, FNeg(y))

\* x < 0, false when x is NaN
IsNegative(x) == x.k \in {"fin", "inf"} /\ x.m < 0

\* x < y, false when either is NaN
FLess(x, y) == IsNegative(FSub(x, y))

\* the decimal literal n * 10^(-k), k >= 0
Pow10(n) == IF n <= 0 THEN 1 ELSE 10^n

Dec(n, k) == FDiv(FromInt(n), FromInt(Pow10(k)))

(***************************************************************************)
(* np.log10 and np.exp.  Both return a value for every argument: the       *)
(* logarithm of a negative number is NaN and the logarithm of zero is      *)
(* -infinity (numpy emits a RuntimeWarning and raises nothing).            *)
(***************************************************************************)
LogBits == 14

\* one more binary digit of a logarithm: sq is the square of the mantissa
Log2Digit(acc, sq) ==
  IF sq >= Pow2(MantBits)
  THEN [y |-> sq \div 2, acc |-> 2 * acc + 1]
  ELSE [y |-> sq, acc |-> 2 * acc]

Log2Step(st) == Log2Digit(st.acc, (st.y * st.y) \div Pow2(MantBits - 1))

\* the first n binary digits of log2(y / 2^14) for 2^14 <= y < 2^15
Log2Frac(y, n) ==
  LET digits[i \in 0..n] ==
        IF i = 0 THEN [y |-> y, acc |-> 0] ELSE Log2Step(digits[i - 1])
  IN  digits[n].acc

\* log10(2) = 0.30103 and log2(e) = 1.442695 and ln(2) = 0.693147
Log10Of2 == [k |-> "fin", m |-> 19728, e |-> -16]

Log2OfE == [k |-> "fin", m |-> 23637, e |-> -14]

LnOf2 == [k |-> "fin", m |-> 22713, e |-> -15]

\* log10 of the finite positive x
Log10Positive(x) ==
  FMul(FromSigned((x.e + MantBits - 1) * Pow2(LogBits)
                    + Log2Frac(x.m, LogBits),
                  -LogBits),
       Log10Of2)

\* a logarithm that clamps a non-positive argument instead of returning
\* NaN or -infinity
log10_Clamped(x) ==
  IF x.k = "nan" THEN NaN
  ELSE IF x.k = "inf" /\ x.m > 0 THEN Inf(1)
  ELSE IF x.m <= 0 THEN Zero
  ELSE Log10Positive(x)

log10(x) ==
  IF x.k = "nan" THEN NaN
  ELSE IF x.m < 0 THEN NaN
  ELSE IF x.k = "inf" THEN Inf(1)
  ELSE IF x.m = 0 THEN Inf(-1)
  ELSE Log10Positive(x)

\* the partial sum st.s of the Taylor series of e^r and its next term
\* st.t = r^j / j!
ExpStep(r, st, j) ==
  IF IsZero(st.t) THEN st
  ELSE [s |-> FAdd(st.s, st.t), t |-> FDiv(FMul(st.t, r), FromInt(j + 1))]

\* the terms 0..n of the Taylor series of e^r, summed
ExpSeries(r, n) ==
  LET partial[i \in 0..(n + 1)] ==
        IF i = 0 THEN [s |-> Zero, t |-> FromInt(1)]
        ELSE ExpStep(r, partial[i - 1], i - 1)
  IN  partial[n + 1].s

ExpTerms == 10

\* s * 2^n
Scale(s, n) == IF s.k = "fin" /\ s.m # 0 THEN Mk(1, s.m, s.e + n) ELSE s

\* 2^(yy / 2^LogBits): the integer part scales e^(ln 2 * fraction)
Exp2Fixed(yy) ==
  Scale(ExpSeries(FMul(Mk(1, yy % Pow2(LogBits), -LogBits), LnOf2), ExpTerms),
        yy \div Pow2(LogBits))

\* 2^y for the finite non-zero y
Exp2(y) ==
  IF y.e > -3 THEN (IF y.m > 0 THEN Inf(1) ELSE Zero)
  ELSE IF y.e < -2 * MantBits - LogBits THEN FromInt(1)
  ELSE Exp2Fixed(IF y.e >= -LogBits
                 THEN y.m * Pow2(y.e + LogBits)
                 ELSE y.m \div Pow2(-LogBits - y.e))

\* e^x = 2^(x * log2(e))
exp(x) ==
  IF x.k = "nan" THEN NaN
  ELSE IF x.k = "inf" THEN (IF x.m > 0 THEN Inf(1) ELSE Zero)
  ELSE IF x.m = 0 THEN FromInt(1)
  ELSE Exp2(FMul(x, Log2OfE))

Sq(x) == FMul(x, x)

(***************************************************************************)
(* The univariate formulas, as the notebook's cells compute them.          *)
(***************************************************************************)
\* the same sigmoid written as 0.1 + 0.9 * e^(20 thr) / (e^(20 thr) + 5000)
precision_of_threshold_Rewritten(thr) ==
  FAdd(Dec(1, 1),
       FDiv(FMul(Dec(9, 1), exp(FMul(FromInt(20), thr))),
            FAdd(exp(FMul(FromInt(20), thr)), FromInt(5000))))

\* precision = 0.1 + 0.9 / (1 + 5000 * np.exp(-20 * thr))
precision_of_threshold(thr) ==
  FAdd(Dec(1, 1),
       FDiv(Dec(9, 1),
            FAdd(FromInt(1),
                 FMul(FromInt(5000), exp(FMul(FromInt(-20), thr))))))

\* recall = 1 / (1 + 1e-5 * np.exp(20 * thr))
recall_of_threshold(thr) ==
  FDiv(FromInt(1),
       FAdd(FromInt(1), FMul(Dec(1, 5), exp(FMul(FromInt(20), thr)))))

\* loss = 3 + 7 * np.exp(-0.05 * epoch)
loss_of_epoch(epoch) ==
  FAdd(FromInt(3), FMul(FromInt(7), exp(FMul(Dec(-5, 2), epoch))))

\* the argument of the logarithm in accuracy: 3 - 0.025 * epoch
EpochLogArg(epoch) == FSub(FromInt(3), FMul(Dec(25, 3), epoch))

\* the formula without the square of the logarithm
accuracy_of_epoch_NoSquare(epoch) ==
  FSub(Dec(95, 2), FMul(FromInt(3), log10(EpochLogArg(epoch))))

\* accuracy = 0.95 - 3 * (np.log10(3 - 0.025 * epoch)) ** 2
accuracy_of_epoch(epoch) ==
  FSub(Dec(95, 2), FMul(FromInt(3), Sq(log10(EpochLogArg(epoch)))))

\* the formula with its boundary moved from 0.9 to 1
LossLrOfZ_Shifted(z) == FAdd(Dec(6, 1), Sq(log10(FSub(FromInt(1), z))))

\* loss = 0.6 + (np.log10(0.9 - z)) ** 2, with z = np.log10(lr)
LossLrOfZ(z) == FAdd(Dec(6, 1), Sq(log10(FSub(Dec(9, 1), z))))

\* accuracy = 0.98 - (np.log10(0.7 - 0.5 * z)) ** 2, with z = np.log10(lr)
AccuracyLrOfZ(z) ==
  FSub(Dec(98, 2), Sq(log10(FSub(Dec(7, 1), FMul(Dec(5, 1), z)))))

loss_of_lr(lr) == LossLrOfZ(log10(lr))

accuracy_of_lr(lr) == AccuracyLrOfZ(log10(lr))

(***************************************************************************)
(* The parameter values evaluations are called with.                       *)
(***************************************************************************)
\* thresholds: far below 0, the middle, far above 1
ThrValues == {FromInt(-2), Dec(50, 2), FromInt(40)}

\* epochs: the grid choices, and 120, 121 where 3 - 0.025 * epoch <= 0
EpochValues == {FromInt(1), FromInt(20), FromInt(120), FromInt(121)}

\* 7.943 < 10^0.9 < 7.944: the last lr below the boundary and the first lr
\* whose log10 evaluates to 0.9
LrBelowBoundary == Dec(7943, 3)

LrBoundary == Dec(7944, 3)

\* learning rates: a grid choice, the boundary of loss_of_lr, 10 (beyond it),
\* 30 (beyond the boundary 10^1.4 of accuracy_of_lr)
LrValues ==
  {Dec(1, 3), LrBelowBoundary, LrBoundary, FromInt(10), FromInt(30)}

\* the constant factors k_A, k_P, k_R, k_L with their default values of 1
DefaultWeights ==
  [k_accuracy |-> FromInt(1), k_precision |-> FromInt(1),
   k_recall |-> FromInt(1), k_loss |-> FromInt(1)]

\* weights: the defaults, k_A = 0, and k_P, k_R of opposite signs
WeightValues ==
  {DefaultWeights,
   [DefaultWeights EXCEPT !.k_accuracy = Zero],
   [DefaultWeights EXCEPT !.k_precision = FromInt(10), !.k_recall = FromInt(-1)]}

\* the choices the notebook configures for each hyperparameter
ConfiguredChoices ==
  [thr |-> {Dec(5, 2), Dec(20, 2)}, epoch |-> {FromInt(1), FromInt(20)},
   lr |-> {Dec(1, 4), Dec(1, 3)}]

\* the candidate values the notebook lists beside the configured choices
CandidateChoices ==
  [thr |-> {Dec(5, 2), Dec(20, 2), Dec(35, 2), Dec(50, 2), Dec(65, 2),
            Dec(80, 2), Dec(95, 2)},
   epoch |-> {FromInt(1), FromInt(20), FromInt(40), FromInt(60), FromInt(80),
              FromInt(100)},
   lr |-> {Dec(1, 4), Dec(1, 3), Dec(1, 2), Dec(1, 1), FromInt(1),
           FromInt(5)}]

\* an array of epochs that runs on to 120
epoch_arange_To121 == {FromInt(i) : i \in 0..120}

\* epoch = np.arange(0, 100, 1)
epoch_arange == {FromInt(i) : i \in 0..99}

\* np.linspace(-4, 0.8, 50): start + i * step, and the last point is stop
LinStep == FDiv(FSub(Dec(8, 1), FromInt(-4)), FromInt(49))

LinPoint(i) ==
  IF i = 49 THEN Dec(8, 1) ELSE FAdd(FMul(FromInt(i), LinStep), FromInt(-4))

\* 10^y = 2^(y / log10(2))
Power10(y) == IF IsZero(y) THEN FromInt(1) ELSE Exp2(FDiv(y, Log10Of2))

\* lr = np.logspace(-4, 0.8)
lr_logspace == {Power10(LinPoint(i)) : i \in 0..49}

\* the epochs and the learning rates the two notebooks hold
OwnEpochs == epoch_arange \cup ConfiguredChoices.epoch \cup CandidateChoices.epoch

OwnLrs == lr_logspace \cup ConfiguredChoices.lr \cup CandidateChoices.lr

(***************************************************************************)
(* The univariate formulas tabulated over the parameter values, so that    *)
(* each is computed once.  An argument outside the table is computed.      *)
(***************************************************************************)
PrecisionTable == [t \in ThrValues |-> precision_of_threshold(t)]

RecallTable == [t \in ThrValues |-> recall_of_threshold(t)]

LossEpochTable == [n \in EpochValues \cup OwnEpochs |-> loss_of_epoch(n)]

AccuracyEpochTable == [n \in EpochValues \cup OwnEpochs |-> accuracy_of_epoch(n)]

Log10Table == [l \in LrValues \cup OwnLrs |-> log10(l)]

ZValues == {Log10Table[l] : l \in DOMAIN Log10Table}

LossLrTable == [zz \in ZValues |-> LossLrOfZ(zz)]

AccuracyLrTable == [zz \in ZValues |-> AccuracyLrOfZ(zz)]

Precision_(t) ==
  IF t \in DOMAIN PrecisionTable THEN PrecisionTable[t]
  ELSE precision_of_threshold(t)

Recall_(t) ==
  IF t \in DOMAIN RecallTable THEN RecallTable[t] ELSE recall_of_threshold(t)

LossEpoch_(n) ==
  IF n \in DOMAIN LossEpochTable THEN LossEpochTable[n] ELSE loss_of_epoch(n)

AccuracyEpoch_(n) ==
  IF n \in DOMAIN AccuracyEpochTable THEN AccuracyEpochTable[n]
  ELSE accuracy_of_epoch(n)

Log10_(l) == IF l \in DOMAIN Log10Table THEN Log10Table[l] ELSE log10(l)

LossLr_(zz) ==
  IF zz \in DOMAIN LossLrTable THEN LossLrTable[zz] ELSE LossLrOfZ(zz)

AccuracyLr_(zz) ==
  IF zz \in DOMAIN AccuracyLrTable THEN AccuracyLrTable[zz]
  ELSE AccuracyLrOfZ(zz)

(***************************************************************************)
(* The notebook's namespace.  Every cell assigns module-level variables:   *)
(* thr, precision, recall (first cell), epoch, loss, accuracy (second      *)
(* cell), lr, z, loss, accuracy (third cell).  The second and the third    *)
(* cell assign the same two names, loss and accuracy.  Each cell then      *)
(* collects what it plots in a list: prec_rec, los_acc_epoch, los_acc_lr.  *)
(***************************************************************************)
Unset == [k |-> "unset", m |-> 0, e |-> 0]

FreshNamespace ==
  [thr |-> Unset, precision |-> Unset, recall |-> Unset, epoch |-> Unset,
   loss |-> Unset, accuracy |-> Unset, lr |-> Unset, z |-> Unset,
   prec_rec |-> <<>>, los_acc_epoch |-> <<>>, los_acc_lr |-> <<>>]

\* the statements of the cells, one operator per assignment
AssignThr(ns, v) == [ns EXCEPT !.thr = v]

AssignPrecision(ns) ==
  [ns EXCEPT !.precision = Precision_(ns.thr)]

AssignRecall(ns) ==
  [ns EXCEPT !.recall = Recall_(ns.thr)]

AssignEpoch(ns, v) == [ns EXCEPT !.epoch = v]

AssignLossOfEpoch(ns) ==
  [ns EXCEPT !.loss = LossEpoch_(ns.epoch)]

AssignAccuracyOfEpoch(ns) ==
  [ns EXCEPT !.accuracy = AccuracyEpoch_(ns.epoch)]

AssignLr(ns, v) == [ns EXCEPT !.lr = v]

AssignZ(ns) ==
  [ns EXCEPT !.z = Log10_(ns.lr)]

AssignLossOfLr(ns) ==
  [ns EXCEPT !.loss = LossLr_(ns.z)]

AssignAccuracyOfLr(ns) ==
  [ns EXCEPT !.accuracy = AccuracyLr_(ns.z)]

\* prec_rec = [precision, recall]
AssignPrecRec(ns) == [ns EXCEPT !.prec_rec = <<ns.precision, ns.recall>>]

\* los_acc_epoch = [loss, 10 * accuracy]
AssignLosAccEpoch(ns) ==
  [ns EXCEPT !.los_acc_epoch = <<ns.loss, FMul(FromInt(10), ns.accuracy)>>]

\* los_acc_lr = [loss, accuracy]
AssignLosAccLr(ns) == [ns EXCEPT !.los_acc_lr = <<ns.loss, ns.accuracy>>]

\* the first cell with precision computed before thr is assigned
CellThreshold_Stale(ns, v) ==
  AssignPrecRec(AssignRecall(AssignThr(AssignPrecision(ns), v)))

\* the three cells, run from their first statement to their last
CellThreshold(ns, v) ==
  AssignPrecRec(AssignRecall(AssignPrecision(AssignThr(ns, v))))

CellEpoch(ns, v) ==
  AssignLosAccEpoch(AssignAccuracyOfEpoch(AssignLossOfEpoch(AssignEpoch(ns, v))))

\* the third cell with z computed before lr is assigned
CellLr_Stale(ns, v) ==
  AssignLosAccLr(AssignAccuracyOfLr(AssignLossOfLr(AssignLr(AssignZ(ns), v))))

CellLr(ns, v) ==
  AssignLosAccLr(AssignAccuracyOfLr(AssignLossOfLr(AssignZ(AssignLr(ns, v)))))

(***************************************************************************)
(* The multivariate functions and F_1.  k is the record of the constant    *)
(* factors k_A, k_P, k_R, k_L.                                             *)
(***************************************************************************)
\* Accuracy(epoch, lr) = k_A * Accuracy(epoch) * Accuracy(lr)
accuracy(k, acc_epoch, acc_lr) == FMul(FMul(k.k_accuracy, acc_epoch), acc_lr)

\* Precision(thr, epoch, lr) = k_P * Precision(thr) * Accuracy(epoch, lr)
precision(k, prec_thr, acc) == FMul(FMul(k.k_precision, prec_thr), acc)

\* Recall(thr, epoch, lr) = k_R * Recall(thr) * Accuracy(epoch, lr)
recall(k, rec_thr, acc) == FMul(FMul(k.k_recall, rec_thr), acc)

\* Loss(epoch, lr) = k_L * Loss(epoch) * Loss(lr)
loss(k, loss_epoch, loss_lr) == FMul(FMul(k.k_loss, loss_epoch), loss_lr)

\* F_1 without its factor 2
F1Value_NoFactor(p, r) == FDiv(FMul(p, r), FAdd(p, r))

\* F_1 = 2 * (Precision * Recall) / (Precision + Recall)
F1Value(p, r) == FDiv(FMul(FromInt(2), FMul(p, r)), FAdd(p, r))

\* F_1 with the zero denominator signalled as a DomainError
f1(p, r) ==
  IF IsZero(FAdd(p, r))
  THEN [error |-> "DomainError", value |-> NaN]
  ELSE [error |-> "none", value |-> F1Value(p, r)]

\* the MetricResult of an evaluation that leaves the namespace n3
Outcome(n3, p, r, l, acc, f) ==
  [ns  |-> n3,
   res |-> [precision |-> p, recall |-> r, loss |-> l, accuracy |-> acc,
            f1 |-> f.value, error |-> f.error]]

Scored(n3, p, r, l, acc) == Outcome(n3, p, r, l, acc, f1(p, r))

\* precision, recall and loss, from the namespace n2 the second cell left,
\* the namespace n3 the third cell left, and the accuracy
Metrics(k, n2, n3, acc) ==
  Scored(n3, precision(k, n3.precision, acc), recall(k, n3.recall, acc),
         loss(k, n2.loss, n3.loss), acc)

\* a composition that reads loss and accuracy only after the third cell has
\* reassigned them
Compose_Overwritten(k, n2, n3) ==
  Metrics(k, n3, n3, accuracy(k, n3.accuracy, n3.accuracy))

\* the composition: accuracy of the epoch is read from n2, before the third
\* cell reassigns the name accuracy
Compose(k, n2, n3) ==
  Metrics(k, n2, n3, accuracy(k, n2.accuracy, n3.accuracy))

\* the third cell and the composition, after the second cell left n2
AfterEpoch(a, n2) == Compose(a.k, n2, CellLr(n2, a.lr))

\* one evaluation of a parameter combination a = [thr, epoch, lr, k], started
\* in the namespace ns: the namespace it leaves and the MetricResult
RunEvaluation(ns, a) ==
  AfterEpoch(a, CellEpoch(CellThreshold(ns, a.thr), a.epoch))

Params ==
  [thr : ThrValues, epoch : EpochValues, lr : LrValues, k : WeightValues]

NoResult == [error |-> "no evaluation"]

\* the parameter combinations of the repeated evaluations
RepeatParams ==
  {a \in Params : /\ a.thr \in {Dec(50, 2), FromInt(40)}
                  /\ a.epoch \in {FromInt(1), FromInt(20)}
                  /\ a.lr \in {Dec(1, 3), LrBelowBoundary}
                  /\ a.k = DefaultWeights}

\* the number of evaluations in a sequence
MaxCalls == 3

\* the callers that evaluate in the same kernel, and what they evaluate
NumCallers == 2

Callers == 1..NumCallers

ConcParams ==
  {[thr |-> Dec(50, 2), epoch |-> FromInt(20), lr |-> Dec(1, 3),
    k |-> DefaultWeights],
   [thr |-> FromInt(-2), epoch |-> FromInt(1), lr |-> LrBelowBoundary,
    k |-> DefaultWeights]}

\* the positive p that F_1 is applied to: significands from 1 to 2 and
\* exponents that make p * p underflow, stay in range, or overflow; with the
\* last exponent p + p overflows as well
SignificandValues == {Pow2(MantBits - 1) + 1000 * i : i \in 0..16}
                       \cup {Pow2(MantBits) - 1}

ExponentValues == {-600, -16, -15, -14, 0, 500, ExpMax - MantBits}

F1Inputs ==
  {[k |-> "fin", m |-> m, e |-> e] :
     m \in SignificandValues, e \in ExponentValues}

\* the epochs with 3 - 0.025 * epoch > 0
ScanEpochs == 0..119

(***************************************************************************)
(* The training pipeline of HyperDrive_MultiStep_Training_Pipeline.ipynb.  *)
(***************************************************************************)
\* ps = GridParameterSampling({"thr": choice(0.05, 0.20),
\*      "epoch": choice(1, 20), "lr": choice(0.0001, 0.001)})
ps ==
  [thr : {Dec(5, 2), Dec(20, 2)}, epoch : {FromInt(1), FromInt(20)},
   lr : {Dec(1, 4), Dec(1, 3)}]

\* hd_config
max_total_runs == 300

max_concurrent_runs == 4

\* the intermediate data of the pipeline; root_dir is a DataReference to a
\* datastore that exists before the pipeline runs
model_info_dir == "model_info_dir"

model_info_best == "model_info_best"

root_dir == "root_dir"

PipelineData == {model_info_dir, model_info_best}

\* a train step that lists only model_info_dir as its output
train_step_NoBest ==
  [name |-> "train step", inputs |-> {root_dir}, outputs |-> {model_info_dir}]

train_step ==
  [name |-> "train step", inputs |-> {root_dir},
   outputs |-> {model_info_dir, model_info_best}]

eval_step ==
  [name |-> "eval step",
   inputs |-> {root_dir, model_info_dir, model_info_best}, outputs |-> {}]

register_step ==
  [name |-> "register step", inputs |-> {root_dir, model_info_dir},
   outputs |-> {}]

\* the step graph without register_step.run_after(eval_step)
run_after_NoRegisterEdge == {<<eval_step.name, train_step.name>>}

\* eval_step.run_after(train_step); register_step.run_after(eval_step):
\* pairs <<step, the step it runs after>>
run_after ==
  {<<eval_step.name, train_step.name>>, <<register_step.name, eval_step.name>>}

\* training_pipeline = Pipeline(workspace=ws, steps=[...])
training_pipeline == {train_step, eval_step, register_step}

StepNames == {s.name : s \in training_pipeline}

VARIABLES
  nb,            \* the namespace of the notebook's kernel
  args,          \* the parameter combination of the last evaluation
  result,        \* the MetricResult of the last evaluation
  history,       \* the evaluations of a sequence, with their results
  cpc,           \* per caller: how many steps of its evaluation are done
  cargs,         \* per caller: the parameter combination it evaluates
  csnap,         \* per caller: the namespace it read after the second cell
  cres,          \* per caller: the MetricResult it got
  overlap,       \* per caller: another caller ran a cell during its evaluation
  pair,          \* the arguments of the last application of f1
  score,         \* what the last application of f1 returned
  scan,          \* accuracy_of_epoch over the epochs 0, 1, ...
  pipeline_run,  \* the status of the submitted pipeline
  steps,         \* per step of the pipeline: its status
  trials,        \* per combination of the grid: the status of its trial run
  started,       \* the number of trial runs started
  data           \* the intermediate data produced so far

evalVars == <<nb, args, result>>

historyVars == <<history>>

callerVars == <<cpc, cargs, csnap, cres, overlap>>

f1Vars == <<pair, score>>

scanVars == <<scan>>

pipeVars == <<pipeline_run, steps, trials, started, data>>

vars == <<evalVars, historyVars, callerVars, f1Vars, scanVars, pipeVars>>

Init ==
  /\ nb = FreshNamespace
  /\ args = NoResult
  /\ result = NoResult
  /\ history = <<>>
  /\ cpc = [c \in Callers |-> 0]
  /\ cargs = [c \in Callers |-> NoResult]
  /\ csnap = [c \in Callers |-> FreshNamespace]
  /\ cres = [c \in Callers |-> NoResult]
  /\ overlap = [c \in Callers |-> FALSE]
  /\ pair = <<>>
  /\ score = NoResult
  /\ scan = <<>>
  /\ pipeline_run = "NotStarted"
  /\ steps = [s \in StepNames |-> "NotStarted"]
  /\ trials = [c \in ps |-> "NotStarted"]
  /\ started = 0
  /\ data = {}

(***************************************************************************)
(* Evaluations, one after the other.                                       *)
(***************************************************************************)
Returned(a, run) ==
  /\ nb' = run.ns
  /\ args' = a
  /\ result' = run.res

\* a caller evaluates one parameter combination
Evaluate(a) ==
  /\ Returned(a, RunEvaluation(nb, a))
  /\ UNCHANGED <<historyVars, callerVars, f1Vars, scanVars, pipeVars>>

Next == \E a \in Params : Evaluate(a)

Spec == Init /\ [][Next]_vars

(***************************************************************************)
(* Sequences of evaluations in the same kernel, each recorded with its     *)
(* result.                                                                 *)
(***************************************************************************)
Recorded(a, run) ==
  /\ Returned(a, run)
  /\ history' = Append(history, [args |-> a, result |-> run.res])

EvaluateAgain(a) ==
  /\ Len(history) < MaxCalls
  /\ Recorded(a, RunEvaluation(nb, a))
  /\ UNCHANGED <<callerVars, f1Vars, scanVars, pipeVars>>

NextRepeat == \E a \in RepeatParams : EvaluateAgain(a)

SpecRepeat == Init /\ [][NextRepeat]_vars

(***************************************************************************)
(* Callers that evaluate in the same kernel without coordination.  The     *)
(* kernel runs one cell at a time; the cells of different callers          *)
(* interleave.  A caller reads loss and accuracy of the epoch when its     *)
(* second cell has run and the other values when its third cell has run.   *)
(***************************************************************************)
\* the callers in the middle of an evaluation while caller c runs a cell
Disturbed(c) ==
  [d \in Callers |-> overlap[d] \/ (d # c /\ cpc[d] \in 1..4)]

Call(c, a) ==
  /\ cpc[c] = 0
  /\ cpc' = [cpc EXCEPT ![c] = 1]
  /\ cargs' = [cargs EXCEPT ![c] = a]
  /\ UNCHANGED <<nb, csnap, cres, overlap>>
  /\ UNCHANGED <<args, result, historyVars, f1Vars, scanVars, pipeVars>>

RunCellThreshold(c) ==
  /\ cpc[c] = 1
  /\ nb' = CellThreshold(nb, cargs[c].thr)
  /\ cpc' = [cpc EXCEPT ![c] = 2]
  /\ overlap' = Disturbed(c)
  /\ UNCHANGED <<cargs, csnap, cres>>
  /\ UNCHANGED <<args, result, historyVars, f1Vars, scanVars, pipeVars>>

RunCellEpoch(c) ==
  /\ cpc[c] = 2
  /\ nb' = CellEpoch(nb, cargs[c].epoch)
  /\ csnap' = [csnap EXCEPT ![c] = nb']
  /\ cpc' = [cpc EXCEPT ![c] = 3]
  /\ overlap' = Disturbed(c)
  /\ UNCHANGED <<cargs, cres>>
  /\ UNCHANGED <<args, result, historyVars, f1Vars, scanVars, pipeVars>>

RunCellLr(c) ==
  /\ cpc[c] = 3
  /\ nb' = CellLr(nb, cargs[c].lr)
  /\ cpc' = [cpc EXCEPT ![c] = 4]
  /\ overlap' = Disturbed(c)
  /\ UNCHANGED <<cargs, csnap, cres>>
  /\ UNCHANGED <<args, result, historyVars, f1Vars, scanVars, pipeVars>>

Return(c) ==
  /\ cpc[c] = 4
  /\ cres' = [cres EXCEPT ![c] = Compose(cargs[c].k, csnap[c], nb).res]
  /\ cpc' = [cpc EXCEPT ![c] = 5]
  /\ UNCHANGED <<nb, cargs, csnap, overlap>>
  /\ UNCHANGED <<args, result, historyVars, f1Vars, scanVars, pipeVars>>

NextConc ==
  \E c \in Callers :
    \/ \E a \in ConcParams : Call(c, a)
    \/ RunCellThreshold(c)
    \/ RunCellEpoch(c)
    \/ RunCellLr(c)
    \/ Return(c)

SpecConc == Init /\ [][NextConc]_vars

(***************************************************************************)
(* F_1 of equal precision and recall.                                      *)
(***************************************************************************)
ScoreEqual(p) ==
  /\ pair' = <<p, p>>
  /\ score' = f1(p, p)
  /\ UNCHANGED <<evalVars, historyVars, callerVars, scanVars, pipeVars>>

NextF1 == \E p \in F1Inputs : ScoreEqual(p)

SpecF1 == Init /\ [][NextF1]_vars

(***************************************************************************)
(* accuracy_of_epoch over the epochs, as the cell computes it element by   *)
(* element.                                                                *)
(***************************************************************************)
ScanEpoch ==
  /\ Len(scan) \in ScanEpochs
  /\ scan' = Append(scan, accuracy_of_epoch(FromInt(Len(scan))))
  /\ UNCHANGED <<evalVars, historyVars, callerVars, f1Vars, pipeVars>>

NextScan == ScanEpoch

SpecScan == Init /\ [][NextScan]_vars

(***************************************************************************)
(* The cells fed with the values the notebooks hold themselves: an element *)
(* of the array epoch or lr of the model notebook, a configured choice or  *)
(* a listed candidate of the pipeline notebook.                            *)
(***************************************************************************)
FeedEpoch(v) ==
  /\ nb' = CellEpoch(nb, v)
  /\ UNCHANGED <<args, result>>
  /\ UNCHANGED <<historyVars, callerVars, f1Vars, scanVars, pipeVars>>

FeedLr(v) ==
  /\ nb' = CellLr(nb, v)
  /\ UNCHANGED <<args, result>>
  /\ UNCHANGED <<historyVars, callerVars, f1Vars, scanVars, pipeVars>>

NextOwn ==
  \/ \E v \in OwnEpochs : FeedEpoch(v)
  \/ \E v \in OwnLrs : FeedLr(v)

SpecOwn == Init /\ [][NextOwn]_vars

(***************************************************************************)
(* A run of the pipeline.  A step starts when the steps it runs after are  *)
(* finished and the intermediate data it reads is produced.  The train     *)
(* step is a HyperDrive run: it starts one trial per combination of the    *)
(* grid, at most max_concurrent_runs at a time and max_total_runs in all;  *)
(* the early termination policy may cancel a running trial.                *)
(***************************************************************************)
Step(name) == CHOOSE s \in training_pipeline : s.name = name

RunsAfter(name) == {e[2] : e \in {d \in run_after : d[1] = name}}

Running(t) == {c \in ps : t[c] = "Running"}

\* pipeline_run = Experiment(...).submit(training_pipeline)
Submit ==
  /\ pipeline_run = "NotStarted"
  /\ pipeline_run' = "Running"
  /\ UNCHANGED <<steps, trials, started, data>>
  /\ UNCHANGED <<evalVars, historyVars, callerVars, f1Vars, scanVars>>

StartStep(name) ==
  /\ pipeline_run = "Running"
  /\ steps[name] = "NotStarted"
  /\ \A before \in RunsAfter(name) : steps[before] = "Finished"
  /\ Step(name).inputs \cap PipelineData \subseteq data
  /\ steps' = [steps EXCEPT ![name] = "Running"]
  /\ UNCHANGED <<pipeline_run, trials, started, data>>
  /\ UNCHANGED <<evalVars, historyVars, callerVars, f1Vars, scanVars>>

\* a sampling that draws a combination again after its trial has ended
StartTrial_Resubmit(c) ==
  /\ steps[train_step.name] = "Running"
  /\ trials[c] \in {"NotStarted", "Completed", "Canceled"}
  /\ Cardinality(Running(trials)) < max_concurrent_runs
  /\ started < max_total_runs
  /\ trials' = [trials EXCEPT ![c] = "Running"]
  /\ started' = started + 1
  /\ UNCHANGED <<pipeline_run, steps, data>>
  /\ UNCHANGED <<evalVars, historyVars, callerVars, f1Vars, scanVars>>

StartTrial(c) ==
  /\ steps[train_step.name] = "Running"
  /\ trials[c] = "NotStarted"
  /\ Cardinality(Running(trials)) < max_concurrent_runs
  /\ started < max_total_runs
  /\ trials' = [trials EXCEPT ![c] = "Running"]
  /\ started' = started + 1
  /\ UNCHANGED <<pipeline_run, steps, data>>
  /\ UNCHANGED <<evalVars, historyVars, callerVars, f1Vars, scanVars>>

CompleteTrial(c) ==
  /\ trials[c] = "Running"
  /\ trials' = [trials EXCEPT ![c] = "Completed"]
  /\ UNCHANGED <<pipeline_run, steps, started, data>>
  /\ UNCHANGED <<evalVars, historyVars, callerVars, f1Vars, scanVars>>

\* early_termination_policy = BanditPolicy(...)
CancelTrial(c) ==
  /\ trials[c] = "Running"
  /\ trials' = [trials EXCEPT ![c] = "Canceled"]
  /\ UNCHANGED <<pipeline_run, steps, started, data>>
  /\ UNCHANGED <<evalVars, historyVars, callerVars, f1Vars, scanVars>>

\* a running step finishes and its outputs exist; the train step finishes
\* when no trial is left to start or to wait for
FinishStep(name) ==
  /\ steps[name] = "Running"
  /\ name = train_step.name =>
       /\ Running(trials) = {}
       /\ \/ \A c \in ps : trials[c] # "NotStarted"
          \/ started = max_total_runs
  /\ steps' = [steps EXCEPT ![name] = "Finished"]
  /\ data' = data \cup Step(name).outputs
  /\ UNCHANGED <<pipeline_run, trials, started>>
  /\ UNCHANGED <<evalVars, historyVars, callerVars, f1Vars, scanVars>>

\* pipeline_run.wait_for_completion() returns
Complete ==
  /\ pipeline_run = "Running"
  /\ \A name \in StepNames : steps[name] = "Finished"
  /\ pipeline_run' = "Completed"
  /\ UNCHANGED <<steps, trials, started, data>>
  /\ UNCHANGED <<evalVars, historyVars, callerVars, f1Vars, scanVars>>

NextPipe ==
  \/ Submit
  \/ \E name \in StepNames : StartStep(name)
  \/ \E c \in ps : StartTrial(c)
  \/ \E c \in ps : CompleteTrial(c)
  \/ \E c \in ps : CancelTrial(c)
  \/ \E name \in StepNames : FinishStep(name)
  \/ Complete

SpecPipe == Init /\ [][NextPipe]_vars

(***************************************************************************)
(* Properties of one evaluation.                                           *)
(***************************************************************************)
HasResult == result # NoResult

IsPositive(x) == x.k \in {"fin", "inf"} /\ x.m > 0

NonFinite(x) == x.k \in {"nan", "inf"}

\* the arguments of the three logarithms for the parameters a
EpochArg(a) == EpochLogArg(a.epoch)

LossLrArg(a) == FSub(Dec(9, 1), log10(a.lr))

AccuracyLrArg(a) == FSub(Dec(7, 1), FMul(Dec(5, 1), log10(a.lr)))

LogArgNonPositive(a) ==
  \/ ~IsPositive(EpochArg(a))
  \/ ~IsPositive(LossLrArg(a))
  \/ ~IsPositive(AccuracyLrArg(a))

\* the value a logarithm-taking formula returns for a non-positive argument
\* of its logarithm: NaN below zero, the given infinity at zero
ReturnsNonFinite(arg, value, sgn) ==
  /\ IsNegative(arg) => value = NaN
  /\ IsZero(arg) => value = Inf(sgn)

\* C1 as stated: every evaluation whose parameters make the argument of a
\* logarithm non-positive ends in a DomainError reported to the caller.
C1_DomainErrorReported ==
  (HasResult /\ LogArgNonPositive(args)) => result.error = "DomainError"

\* C1 amended: a non-positive argument of log10 raises nothing.  The formula
\* returns NaN when the argument is negative and an infinity when it is zero
\* (accuracy_of_epoch and accuracy_of_lr: -infinity, loss_of_lr: +infinity),
\* and the multivariate metrics built from it are non-finite as well.
C1_NonFiniteReturned ==
  HasResult =>
    /\ ReturnsNonFinite(EpochArg(args), nb.los_acc_epoch[2], -1)
    /\ ReturnsNonFinite(LossLrArg(args), nb.los_acc_lr[1], 1)
    /\ ReturnsNonFinite(AccuracyLrArg(args), nb.los_acc_lr[2], -1)
    /\ ~IsPositive(LossLrArg(args)) => NonFinite(result.loss)
    /\ (~IsPositive(EpochArg(args)) \/ ~IsPositive(AccuracyLrArg(args))) =>
         /\ NonFinite(result.accuracy)
         /\ NonFinite(result.precision)
         /\ NonFinite(result.recall)
         /\ result.f1 = NaN
         /\ result.error = "none"

\* an evaluation with epoch = 121 (3 - 0.025 * epoch < 0) has returned NaN
C1_Witness ==
  /\ HasResult
  /\ IsNegative(EpochArg(args))
  /\ nb.los_acc_epoch[2] = NaN
  /\ result.error = "none"

\* the denominator of F_1 for the last evaluation
F1Denominator == FAdd(result.precision, result.recall)

BothZero == IsZero(result.precision) /\ IsZero(result.recall)

\* F_1 signals the zero denominator and is the quotient otherwise
F1SignalsZeroDenominator ==
  /\ IsZero(F1Denominator) => result.error = "DomainError"
  /\ ~IsZero(F1Denominator) =>
       /\ result.error = "none"
       /\ result.f1 = FDiv(FMul(FromInt(2),
                                FMul(result.precision, result.recall)),
                           F1Denominator)

\* C2 as stated: f1 signals a DomainError exactly for precision + recall = 0
\* and returns 2 * precision * recall / (precision + recall) otherwise, and
\* precision + recall = 0 occurs only when both metrics are zero.
C2_ZeroSumOnlyWhenBothZero ==
  HasResult =>
    /\ F1SignalsZeroDenominator
    /\ IsZero(F1Denominator) => BothZero

\* C2 amended: f1 signals a DomainError exactly for precision + recall = 0
\* and returns 2 * precision * recall / (precision + recall) otherwise;
\* precision + recall = 0 occurs when both metrics are zero and also when
\* precision = -recall # 0, which needs k_precision and k_recall of opposite
\* signs.
C2_ZeroSumBothZeroOrOpposite ==
  HasResult =>
    /\ F1SignalsZeroDenominator
    /\ (IsZero(F1Denominator) /\ ~BothZero) =>
         /\ result.precision = FNeg(result.recall)
         /\ \/ IsPositive(args.k.k_precision) /\ IsNegative(args.k.k_recall)
            \/ IsNegative(args.k.k_precision) /\ IsPositive(args.k.k_recall)

\* f1 has signalled the zero denominator for precision = -recall # 0
C2_Witness ==
  /\ HasResult
  /\ result.error = "DomainError"
  /\ ~BothZero
  /\ IsFinite(result.precision)

\* the documented domain: lr > 0 with log10(lr) < 0.9, 3 - 0.025 * epoch > 0
InDomain(a) ==
  /\ IsPositive(a.lr)
  /\ FLess(log10(a.lr), Dec(9, 1))
  /\ IsPositive(EpochArg(a))

WeightedProducts(k, p_t, r_t, acc_e, acc_l, los_e, los_l) ==
  /\ result.accuracy = FMul(FMul(k.k_accuracy, acc_e), acc_l)
  /\ result.precision = FMul(FMul(k.k_precision, p_t), result.accuracy)
  /\ result.recall = FMul(FMul(k.k_recall, r_t), result.accuracy)
  /\ result.loss = FMul(FMul(k.k_loss, los_e), los_l)
  /\ k = DefaultWeights =>
       /\ result.accuracy = FMul(acc_e, acc_l)
       /\ result.precision = FMul(p_t, FMul(acc_e, acc_l))
       /\ result.recall = FMul(r_t, FMul(acc_e, acc_l))
       /\ result.loss = FMul(los_e, los_l)

C7_BoundaryReportsDomainError ==
  (HasResult /\ nb.z = Dec(9, 1)) => result.error = "DomainError"

\* C7 amended: for log10(lr) = 0.9 (argument of the logarithm exactly 0)
\* loss_of_lr returns +infinity and raises nothing; for every lr with
\* log10(lr) below 0.9 it returns a finite value.
C7_BoundaryReturnsInfinity ==
  HasResult =>
    /\ nb.z = log10(args.lr)
    /\ nb.z = Dec(9, 1) => nb.los_acc_lr[1] = Inf(1)
    /\ (IsPositive(args.lr) /\ FLess(nb.z, Dec(9, 1))) =>
         IsFinite(nb.los_acc_lr[1])

\* loss_of_lr has been evaluated at the boundary and has returned +infinity
C7_Witness ==
  /\ HasResult
  /\ args.lr = LrBoundary
  /\ nb.z = Dec(9, 1)
  /\ nb.los_acc_lr[1] = Inf(1)

(***************************************************************************)
(* Properties of sequences of evaluations.                                 *)
(***************************************************************************)
\* what an evaluation of a returns in a kernel that has run nothing before
AloneResult(a) == RunEvaluation(FreshNamespace, a).res

\* C4: in every sequence of evaluations, two evaluations with identical
\* (thr, epoch, lr, weights) have returned identical MetricResults, whatever
\* was evaluated in between, and each result is the one the evaluation
\* returns in a fresh kernel.
C4_IdenticalInputsIdenticalResults ==
  /\ \A i, j \in 1..Len(history) :
       history[i].args = history[j].args =>
         history[i].result = history[j].result
  /\ \A i \in 1..Len(history) :
       history[i].result = AloneResult(history[i].args)

\* a combination has been evaluated, then one that differs in thr, epoch and
\* lr, then the first again, with the first result
C4_Witness ==
  /\ Len(history) >= 3
  /\ history[1].args = history[3].args
  /\ history[2].args.thr # history[1].args.thr
  /\ history[2].args.epoch # history[1].args.epoch
  /\ history[2].args.lr # history[1].args.lr
  /\ history[2].result # history[1].result
  /\ history[3].result = history[1].result

(***************************************************************************)
(* Properties of callers that share the kernel.                            *)
(***************************************************************************)
Returned5(c) == cpc[c] = 5

\* C5 as stated: under every interleaving each caller gets the result it
\* would get running alone.
C5_EveryInterleavingAsAlone ==
  \A c \in Callers : Returned5(c) => cres[c] = AloneResult(cargs[c])

\* C5 amended: the cells of an evaluation assign the kernel's module-level
\* variables, which the evaluations of all callers read and write.  A caller
\* gets the result it would get running alone when no other caller ran a
\* cell between the start and the end of its evaluation.
C5_AsAloneWhenNotInterleaved ==
  \A c \in Callers :
    (Returned5(c) /\ ~overlap[c]) => cres[c] = AloneResult(cargs[c])

\* two callers have evaluated different combinations one after the other
\* and each has got its own result
C5_Witness ==
  \E c, d \in Callers :
    /\ Returned5(c) /\ Returned5(d)
    /\ ~overlap[c] /\ ~overlap[d]
    /\ cargs[c] # cargs[d]
    /\ cres[c] # cres[d]
    /\ cres[c] = AloneResult(cargs[c])

(***************************************************************************)
(* Properties of F_1.                                                      *)
(***************************************************************************)
HasScore == score # NoResult

\* the floats next to the positive finite p
NextUp(p) ==
  IF p.m = Pow2(MantBits) - 1
  THEN [p EXCEPT !.m = Pow2(MantBits - 1), !.e = p.e + 1]
  ELSE [p EXCEPT !.m = p.m + 1]

NextDown(p) ==
  IF p.m = Pow2(MantBits - 1)
  THEN [p EXCEPT !.m = Pow2(MantBits) - 1, !.e = p.e - 1]
  ELSE [p EXCEPT !.m = p.m - 1]

\* the significand of p is below the square root of 2
BelowRootTwo(p) == p.m * p.m < Pow2(2 * MantBits - 1)

\* value is f1(p, p) as the arithmetic rounds it, sq being p * p
RoundedEqual(p, sq, value) ==
  IF sq = Inf(1)
  THEN value = (IF FAdd(p, p) = Inf(1) THEN NaN ELSE Inf(1))
  ELSE IF IsZero(sq) THEN value = Zero
  ELSE /\ value \in {p, NextUp(p), NextDown(p)}
       /\ BelowRootTwo(p) => value = p

PeakEpochs == {e \in ScanEpochs : EpochLogArg(FromInt(e)) = FromInt(1)}

Endpoints ==
  {e \in ScanEpochs : (e - 1) \notin ScanEpochs \/ (e + 1) \notin ScanEpochs}

ScanComplete == Len(scan) = Cardinality(ScanEpochs)

\* the epochs whose accuracy no epoch exceeds
Maxima ==
  {e \in ScanEpochs : \A o \in ScanEpochs : ~FLess(scan[e + 1], scan[o + 1])}

\* the scanned values rise up to the epoch p and fall after it
RisesThenFalls(p) ==
  \A i \in 1..(Len(scan) - 1) :
    IF i <= p THEN FLess(scan[i], scan[i + 1]) ELSE FLess(scan[i + 1], scan[i])

\* C9: over the epochs 0..119 accuracy_of_epoch has exactly one maximum, not
\* at epoch 0 or 119; the values rise up to it and fall after it, and it is
\* where 3 - 0.025 * epoch = 1.
C9_SingleInteriorMaximum ==
  /\ \A p \in PeakEpochs : RisesThenFalls(p)
  /\ ScanComplete =>
       /\ Cardinality(Maxima) = 1
       /\ Maxima = PeakEpochs
       /\ Maxima \cap Endpoints = {}

\* all epochs are scanned and the maximum 0.95 is at epoch 80
C9_Witness ==
  /\ ScanComplete
  /\ 80 \in Maxima
  /\ scan[81] = Dec(95, 2)
  /\ FLess(scan[1], scan[81]) /\ FLess(scan[120], scan[81])

(***************************************************************************)
(* Properties of a run of the pipeline.                                    *)
(***************************************************************************)
Begun(name) == steps[name] # "NotStarted"

\* C10: the eval step never starts before the train step has finished and
\* the register step never starts before the eval step has finished.
C10_StepsInOrder ==
  /\ Begun(eval_step.name) => steps[train_step.name] = "Finished"
  /\ Begun(register_step.name) => steps[eval_step.name] = "Finished"

\* a run in which the three steps have finished
C10_Witness ==
  /\ pipeline_run = "Completed"
  /\ steps[register_step.name] = "Finished"
  /\ data = PipelineData

(***************************************************************************)
(* Properties of the HyperDrive run of the train step.                     *)
(***************************************************************************)
\* the trial runs the train step has started
StartedTrials == {c \in ps : trials[c] # "NotStarted"}

\* the number of trial runs the train step has started and may still start
RunsAllowed == max_total_runs

\* C11 as stated: the maximum number of training runs is 500; the train step
\* never has started more than 500 trial runs and is allowed to start up to
\* 500.
C11_UpTo500Runs ==
  steps[train_step.name] = "Running" =>
    /\ started <= 500
    /\ RunsAllowed = 500

\* C12: the grid has the 2 x 2 x 2 = 8 combinations of the configured
\* choices; every trial run is of a combination of the grid and no
\* combination is submitted twice; when the train step has finished every
\* combination has been submitted.
C12_GridCoveredOnce ==
  /\ Cardinality(ps) = 8
  /\ started = Cardinality(StartedTrials)
  /\ \A c \in StartedTrials :
       /\ c.thr \in ConfiguredChoices.thr
       /\ c.epoch \in ConfiguredChoices.epoch
       /\ c.lr \in ConfiguredChoices.lr
  /\ steps[train_step.name] = "Finished" => StartedTrials = ps

\* the train step has finished after 8 trial runs, some completed and some
\* ended by the early termination policy
C12_Witness ==
  /\ steps[train_step.name] = "Finished"
  /\ started = 8
  /\ \E c \in ps : trials[c] = "Completed"
  /\ \E c \in ps : trials[c] = "Canceled"

AllFinite(list) == \A i \in DOMAIN list : IsFinite(list[i])

\* C13: every epoch the notebooks feed has 3 - 0.025 * epoch > 0 and every
\* lr they feed is positive with log10(lr) < 0.9, so that the argument of
\* every logarithm is positive and loss and accuracy are finite.
C13_OwnValuesInDomain ==
  /\ nb.epoch # Unset =>
       /\ IsPositive(EpochLogArg(nb.epoch))
       /\ nb.los_acc_epoch # <<>> /\ AllFinite(nb.los_acc_epoch)
  /\ nb.lr # Unset =>
       /\ IsPositive(nb.lr)
       /\ nb.z = log10(nb.lr) /\ FLess(nb.z, Dec(9, 1))
       /\ IsPositive(FSub(Dec(9, 1), nb.z))
       /\ IsPositive(FSub(Dec(7, 1), FMul(Dec(5, 1), nb.z)))
       /\ nb.los_acc_lr # <<>> /\ AllFinite(nb.los_acc_lr)

\* the largest epoch and the largest lr of the notebooks have been fed
C13_Witness ==
  /\ nb.epoch = FromInt(100)
  /\ nb.lr = Power10(Dec(8, 1))
  /\ FLess(FromInt(5), nb.lr)

(***************************************************************************)
(* Properties of the intermediate data of the pipeline.                    *)
(***************************************************************************)
\* the step named first is ordered before the step named second
OrderedBefore(first, second) ==
  \/ <<second, first>> \in run_after
  \/ \E between \in StepNames :
       <<second, between>> \in run_after /\ <<between, first>> \in run_after

\* the intermediate data a step reads, and the steps that produce an item
Consumes(s) == s.inputs \cap PipelineData

Producers(item) == {p \in training_pipeline : item \in p.outputs}

\* C14: every PipelineData a step lists as input is an output of the train
\* step, which is ordered before that step; and a step that has started
\* reads only items that exist, whose producing step has finished.
C14_ProducedBeforeConsumed ==
  /\ Consumes(eval_step) = {model_info_dir, model_info_best}
  /\ Consumes(register_step) = {model_info_dir}
  /\ \A s \in training_pipeline : \A item \in Consumes(s) :
       /\ Producers(item) = {train_step}
       /\ OrderedBefore(train_step.name, s.name)
       /\ Begun(s.name) =>
            /\ item \in data
            /\ \A p \in Producers(item) : steps[p.name] = "Finished"

\* the register step reads model_info_dir while the pipeline still runs
C14_Witness ==
  /\ steps[register_step.name] = "Running"
  /\ steps[eval_step.name] = "Finished"
  /\ model_info_dir \in data

====
